---- MODULE Spec2Model ----
(***************************************************************************)
(* A model of the react-hooks collection: useFetch with its module-level   *)
(* cache, useTodo with its reducer and its localStorage write-through.     *)
(* Each hook has its own specification (SpecFetch, SpecTodo, SpecReducer); *)
(* a specification leaves the variables of the other hooks unchanged.      *)
(***************************************************************************)
EXTENDS Integers, Sequences, FiniteSets, Bags, TLC

VARIABLES
    \* ---- useFetch (src/unnamed/part_000, lines 82-161) ----
    mounted,            \* mounted[i]: component slot i holds a mounted component
    url,                \* url[i]: the url argument of the last render of slot i
    state,              \* state[i]: the useState cell of the component in slot i
    requests,           \* bag of fetchData calls suspended at an await
    cache,              \* __localCache: url -> parsed JSON value, or Undefined
    updateOnUnmounted,  \* setState was called for a component that is unmounted
    rejected,           \* a promise returned by fetchData was rejected
    \* ---- useTodo (src/useTodo/useTodo.ts) ----
    storage,            \* localStorage item "todos": Absent or a JSON text
    tphase,             \* "unmounted", "mounted" or "crashed"
    todos,              \* the rendered state of useReducer
    queue,              \* actions dispatched and not yet reduced by a render
    effectPending,      \* the [todos] effect is scheduled and has not run
    now,                \* the millisecond clock read by new Date().getTime()
    thrown,             \* the exception raised to the owning component
    \* ---- todoReducer called directly (src/useTodo/todoReducer.ts) ----
    rState, rAction, rResult, rDone,
    \* ---- useCounter (src/useCounter/useCounter.ts) ----
    cPhase,             \* "unmounted" or "mounted"
    counter,            \* the rendered state of useState
    cQueue,             \* setCounter calls not yet applied by a render
    cProp,              \* the initialState parameter of the last render
    cCreated,           \* the initialState parameter of the first render
    \* ---- useForm (src/unnamed/part_000, lines 62-81) ----
    fPhase,             \* "unmounted" or "mounted"
    formState,          \* the rendered state of useState
    fQueue,             \* setFormState calls not yet applied by a render
    fProp,              \* the form object passed at the last render
    fCreated,           \* the form object passed at the first render
    \* ---- useFetchRickAndMorty (src/unnamed/part_000, lines 1-60) ----
    qPhase,             \* "unmounted" or "mounted"
    qConfig,            \* the configuration the component passes
    qOptions,           \* the options handed to useQuery
    qStatus,            \* the state of the query: "pending", "success", "error"
    qInFlight,          \* the queryFn is suspended at its fetch
    qCalls,             \* network requests issued since the mount
    qFailures,          \* failed attempts of the running fetch
    \* ---- two components using useTodo (src/useTodo/useTodo.ts) ----
    uPhase, uTodos, uQueue, uEffect

fetchVars == <<mounted, url, state, requests, cache, updateOnUnmounted, rejected>>
todoVars == <<storage, tphase, todos, queue, effectPending, now, thrown>>
reducerVars == <<rState, rAction, rResult, rDone>>
counterVars == <<cPhase, counter, cQueue, cProp, cCreated>>
formVars == <<fPhase, formState, fQueue, fProp, fCreated>>
queryVars == <<qPhase, qConfig, qOptions, qStatus, qInFlight, qCalls, qFailures>>
todo2Vars == <<uPhase, uTodos, uQueue, uEffect>>
otherVars == <<counterVars, formVars, queryVars, todo2Vars>>
vars == <<fetchVars, todoVars, reducerVars, otherVars>>

(***************************************************************************)
(* Bounds of the model.                                                    *)
(***************************************************************************)
MaxInFlight == 2        \* fetchData calls suspended at the same time
MaxTime == 2            \* last value of the millisecond clock
MaxTodos == 2           \* longest todo list
MaxQueue == 2           \* most actions dispatched before one render
MaxLen == 2             \* longest list handed to todoReducer directly
MaxCount == 16          \* largest absolute value of the counter
MaxObjects == 2         \* objects a component constructs for useForm
MaxCalls == 4           \* requests of one url by useFetchRickAndMorty
MaxSharedTodos == 2     \* todos in the list of each of two components
MaxSharedQueue == 1     \* dispatches of each between two of its renders

(***************************************************************************)
(* useFetch                                                                *)
(***************************************************************************)
\* The component slots that use useFetch.
Instances == {1, 2}
Urls == {"/a", "/b"}
NoUrl == ""

\* JavaScript values. "null" is JavaScript's null, the value of an absent
\* `data`; Undefined is a missing property of __localCache.
Null == "null"
Undefined == "undefined"

\* The parsed JSON bodies a server answers with: the number 0 and an object.
JsonValues == {"0", "object"}

\* JavaScript truthiness of a value (the test of `if(__localCache[url])`).
Truthy(v) == v \notin {Undefined, Null, "0", "false", "emptyString"}

\* HTTP status codes a server answers with; resp.ok is status in 200..299.
Statuses == {200, 404}
Ok(status) == status \in 200..299

\* An error text is a sequence of string pieces; NoError is `error: null`.
NoError == <<>>

\* What `await fetch(url)` or `await resp.json()` can throw: an Error with a
\* message, or a value that is no Error.
Thrown == {[isError |-> TRUE, message |-> <<"Failed to fetch">>],
           [isError |-> TRUE, message |-> <<"Unexpected token < in JSON">>],
           [isError |-> FALSE, message |-> <<"rejected">>]}
NetworkFailures == {t \in Thrown : t.message # <<"Unexpected token < in JSON">>}
ParseFailures == {t \in Thrown : t.isError /\ t.message = <<"Unexpected token < in JSON">>}

\* new Error(`HTTP error! status: ${resp.status}`)
HttpError(status) ==
    [isError |-> TRUE, message |-> <<"HTTP error! status: ", ToString(status)>>]

\* The initial useState value, and the value set by setLoadinState.
LoadingState == [data |-> Null, loading |-> TRUE, hasError |-> FALSE, error |-> NoError]

SuccessState(data) ==
    [data |-> data, loading |-> FALSE, hasError |-> FALSE, error |-> NoError]

\* Mutant of ErrorMessage: the message of the failure is dropped.
ErrorMessageGeneric(t) == <<"An error occurred">>

\* error instanceof Error ? error.message : 'An error occurred'
ErrorMessage(t) == IF t.isError THEN t.message ELSE <<"An error occurred">>

\* Mutant of ErrorState: loading is left on.
ErrorStateLoading(t) ==
    [data |-> Null, loading |-> TRUE, hasError |-> TRUE, error |-> ErrorMessage(t)]

ErrorState(t) ==
    [data |-> Null, loading |-> FALSE, hasError |-> TRUE, error |-> ErrorMessage(t)]

\* A suspended fetchData call. isMounted is the PARAMETER of fetchData: a copy
\* of the effect's variable made at the call. effectIsMounted is the effect's
\* own `let isMounted`, which the cleanup sets to false. unmounted tells that
\* the component whose setState the call holds has been unmounted.
NewRequest(i, u, isMounted) ==
    [inst |-> i, url |-> u, isMounted |-> isMounted, effectIsMounted |-> TRUE,
     unmounted |-> FALSE, phase |-> "fetch"]

RECURSIVE SumCounts(_, _)
SumCounts(B, S) ==
    IF S = {} THEN 0
    ELSE LET r == CHOOSE x \in S : TRUE IN B[r] + SumCounts(B, S \ {r})

\* The request r after the cleanup of the effect of slot i: `isMounted = false`
\* in the closure of every effect run of the slot (earlier ones are false
\* already); on unmount the component of the request is gone.
AfterCleanup(r, i, unmount) ==
    IF r.inst = i
    THEN [r EXCEPT !.effectIsMounted = FALSE, !.unmounted = r.unmounted \/ unmount]
    ELSE r

\* The bag B of requests after the cleanup of the effect of slot i.
CleanedUp(B, i, unmount) ==
    LET img == {AfterCleanup(r, i, unmount) : r \in DOMAIN B}
    IN [e \in img |->
           SumCounts(B, {r \in DOMAIN B : AfterCleanup(r, i, unmount) = e})]

\* The value of the isMounted variable when the effect calls fetchData.
EffectIsMountedAtCall == TRUE

\* The cache test of fetchData.
CacheHit(c, u) == Truthy(c[u])

\* setState of the component that made request r, called with s.
SetState(r, s) ==
    IF r.unmounted
    THEN /\ updateOnUnmounted' = TRUE
         /\ UNCHANGED state
    ELSE /\ state' = [state EXCEPT ![r.inst] = s]
         /\ UNCHANGED updateOnUnmounted

\* fetchData(isMounted, u) up to its first await, called by the effect of slot
\* i; st and reqs are the state cells and the requests after the render.
FetchDataStart(i, u, st, reqs) ==
    IF CacheHit(cache, u)
    THEN /\ state' = [st EXCEPT ![i] = SuccessState(cache[u])]
         /\ requests' = reqs
    ELSE /\ BagCardinality(reqs) < MaxInFlight
         /\ state' = [st EXCEPT ![i] = LoadingState]
         /\ requests' = reqs (+) SetToBag({NewRequest(i, u, EffectIsMountedAtCall)})

\* A component using useFetch(u) mounts in slot i: first render, then effect.
Mount(i, u) ==
    /\ ~mounted[i]
    /\ mounted' = [mounted EXCEPT ![i] = TRUE]
    /\ url' = [url EXCEPT ![i] = u]
    /\ FetchDataStart(i, u, [state EXCEPT ![i] = LoadingState], requests)
    /\ UNCHANGED <<cache, updateOnUnmounted, rejected>>
    /\ UNCHANGED <<todoVars, reducerVars, otherVars>>

\* The component of slot i re-renders with another url: the cleanup of the
\* previous effect runs, then the effect runs again.
SetUrl(i, u) ==
    /\ mounted[i]
    /\ u # url[i]
    /\ url' = [url EXCEPT ![i] = u]
    /\ FetchDataStart(i, u, state, CleanedUp(requests, i, FALSE))
    /\ UNCHANGED <<mounted, cache, updateOnUnmounted, rejected>>
    /\ UNCHANGED <<todoVars, reducerVars, otherVars>>

\* Mutant of Unmount: the cache entry of the component's url goes with it.
UnmountEvicting(i) ==
    /\ mounted[i]
    /\ mounted' = [mounted EXCEPT ![i] = FALSE]
    /\ url' = [url EXCEPT ![i] = NoUrl]
    /\ state' = [state EXCEPT ![i] = LoadingState]
    /\ requests' = CleanedUp(requests, i, TRUE)
    /\ cache' = [cache EXCEPT ![url[i]] = Undefined]
    /\ UNCHANGED <<updateOnUnmounted, rejected>>
    /\ UNCHANGED <<todoVars, reducerVars, otherVars>>

\* The component of slot i unmounts: the cleanup runs, its state cell is gone.
Unmount(i) ==
    /\ mounted[i]
    /\ mounted' = [mounted EXCEPT ![i] = FALSE]
    /\ url' = [url EXCEPT ![i] = NoUrl]
    /\ state' = [state EXCEPT ![i] = LoadingState]
    /\ requests' = CleanedUp(requests, i, TRUE)
    /\ UNCHANGED <<cache, updateOnUnmounted, rejected>>
    /\ UNCHANGED <<todoVars, reducerVars, otherVars>>

\* `catch (error)` has no filter: it handles every value thrown in the try.
CatchHandles(t) == TRUE

\* The catch block of fetchData, entered with the thrown value t; a value the
\* catch did not handle would reject the promise fetchData returned.
Catch(r, t) ==
    /\ IF CatchHandles(t)
       THEN /\ IF r.isMounted
               THEN SetState(r, ErrorState(t))
               ELSE UNCHANGED <<state, updateOnUnmounted>>
            /\ UNCHANGED rejected
       ELSE /\ rejected' = TRUE
            /\ UNCHANGED <<state, updateOnUnmounted>>
    /\ UNCHANGED cache

\* `await fetch(url)` rejects: a network failure.
FetchRejects(r, t) ==
    /\ r \in DOMAIN requests /\ r.phase = "fetch"
    /\ t \in NetworkFailures
    /\ requests' = requests (-) SetToBag({r})
    /\ Catch(r, t)
    /\ UNCHANGED <<mounted, url>>
    /\ UNCHANGED <<todoVars, reducerVars, otherVars>>

\* `await fetch(url)` resolves with a response of the given status.
FetchResponds(r, status) ==
    /\ r \in DOMAIN requests /\ r.phase = "fetch"
    /\ IF ~Ok(status)
       THEN /\ requests' = requests (-) SetToBag({r})
            /\ Catch(r, HttpError(status))
       ELSE /\ requests' = (requests (-) SetToBag({r}))
                               (+) SetToBag({[r EXCEPT !.phase = "json"]})
            /\ UNCHANGED <<state, cache, updateOnUnmounted, rejected>>
    /\ UNCHANGED <<mounted, url>>
    /\ UNCHANGED <<todoVars, reducerVars, otherVars>>

\* `await resp.json()` rejects: the body is no JSON.
JsonRejects(r, t) ==
    /\ r \in DOMAIN requests /\ r.phase = "json"
    /\ t \in ParseFailures
    /\ requests' = requests (-) SetToBag({r})
    /\ Catch(r, t)
    /\ UNCHANGED <<mounted, url>>
    /\ UNCHANGED <<todoVars, reducerVars, otherVars>>

\* `await resp.json()` resolves with the parsed value v.
JsonResolves(r, v) ==
    /\ r \in DOMAIN requests /\ r.phase = "json"
    /\ requests' = requests (-) SetToBag({r})
    /\ IF r.isMounted
       THEN SetState(r, SuccessState(v))
       ELSE UNCHANGED <<state, updateOnUnmounted>>
    /\ cache' = [cache EXCEPT ![r.url] = v]
    /\ UNCHANGED <<mounted, url, rejected>>
    /\ UNCHANGED <<todoVars, reducerVars, otherVars>>

FetchNext ==
    \/ \E i \in Instances, u \in Urls : Mount(i, u)
    \/ \E i \in Instances, u \in Urls : SetUrl(i, u)
    \/ \E i \in Instances : Unmount(i)
    \/ \E r \in DOMAIN requests, t \in Thrown : FetchRejects(r, t)
    \/ \E r \in DOMAIN requests, s \in Statuses : FetchResponds(r, s)
    \/ \E r \in DOMAIN requests, t \in Thrown : JsonRejects(r, t)
    \/ \E r \in DOMAIN requests, v \in JsonValues : JsonResolves(r, v)

(***************************************************************************)
(* todoReducer                                                             *)
(***************************************************************************)
\* The texts a user enters.
Texts == {"a"}

\* The untyped `action.payload`: a number (delete, toggle) or a Todo (add).
NoTodo == [id |-> 0, todo |-> "", done |-> FALSE]
NumberValue(n) == [kind |-> "number", num |-> n, obj |-> NoTodo]
ObjectValue(t) == [kind |-> "object", num |-> 0, obj |-> t]

\* todo.id === action.payload
StrictEquals(id, payload) == payload.kind = "number" /\ payload.num = id

\* Mutant of ReducerAdd: the new todo is put first.
ReducerAddFirst(st, action) ==
    [items |-> <<action.payload.obj>> \o st, same |-> FALSE]

\* Mutant of ReducerDelete: the test of the filter is inverted.
ReducerDeleteInverted(st, action) ==
    LET Keep(t) == StrictEquals(t.id, action.payload)
    IN [items |-> SelectSeq(st, Keep), same |-> FALSE]

\* Mutant of ReducerToggle: the todo is marked done instead of flipped.
ReducerToggleDone(st, action) ==
    [items |-> [k \in 1..Len(st) |->
                   IF StrictEquals(st[k].id, action.payload)
                   THEN [st[k] EXCEPT !.done = TRUE]
                   ELSE st[k]],
     same |-> FALSE]

\* Mutant of ReducerDefault: a copy of the state is returned.
ReducerDefaultCopy(st, action) == [items |-> st, same |-> FALSE]

\* The result of the reducer: the array returned, and whether it is the very
\* array passed in (what Object.is compares) or a new one.
ReducerAdd(st, action) ==
    [items |-> Append(st, action.payload.obj), same |-> FALSE]

ReducerDelete(st, action) ==
    LET Keep(t) == ~StrictEquals(t.id, action.payload)
    IN [items |-> SelectSeq(st, Keep), same |-> FALSE]

ReducerToggle(st, action) ==
    [items |-> [k \in 1..Len(st) |->
                   IF StrictEquals(st[k].id, action.payload)
                   THEN [st[k] EXCEPT !.done = ~st[k].done]
                   ELSE st[k]],
     same |-> FALSE]

ReducerDefault(st, action) == [items |-> st, same |-> TRUE]

todoReducer(st, action) ==
    CASE action.type = "add" -> ReducerAdd(st, action)
      [] action.type = "delete" -> ReducerDelete(st, action)
      [] action.type = "toggle" -> ReducerToggle(st, action)
      [] OTHER -> ReducerDefault(st, action)

initialState == <<>>

(***************************************************************************)
(* JSON texts of localStorage: a text is a sequence of tokens.             *)
(***************************************************************************)
Punct(c) == [t |-> c, n |-> 0, s |-> ""]
Key(k) == [t |-> "key", n |-> 0, s |-> k]
Num(n) == [t |-> "number", n |-> n, s |-> ""]
Str(s) == [t |-> "string", n |-> 0, s |-> s]
Bool(b) == [t |-> "boolean", n |-> 0, s |-> IF b THEN "true" ELSE "false"]

ObjectText(todo) ==
    <<Punct("{"), Key("id"), Num(todo.id), Key("todo"), Str(todo.todo),
      Key("done"), Bool(todo.done), Punct("}")>>

RECURSIVE ElementsText(_)
ElementsText(list) ==
    IF list = <<>> THEN <<>>
    ELSE IF Len(list) = 1 THEN ObjectText(list[1])
    ELSE ObjectText(list[1]) \o <<Punct(",")>> \o ElementsText(Tail(list))

\* JSON.stringify of a Todo[].
JSON_stringify(list) == <<Punct("[")>> \o ElementsText(list) \o <<Punct("]")>>

\* One object of the text, read from position p.
ObjectAt(text, p) ==
    LET ok == /\ p + 7 <= Len(text)
              /\ text[p] = Punct("{")
              /\ text[p + 1] = Key("id") /\ text[p + 2].t = "number"
              /\ text[p + 3] = Key("todo") /\ text[p + 4].t = "string"
              /\ text[p + 5] = Key("done") /\ text[p + 6].t = "boolean"
              /\ text[p + 7] = Punct("}")
    IN IF ok
       THEN [ok |-> TRUE,
             value |-> [id |-> text[p + 2].n, todo |-> text[p + 4].s,
                        done |-> text[p + 6].s = "true"]]
       ELSE [ok |-> FALSE, value |-> NoTodo]

\* The elements of an array from position p, an object expected at p.
RECURSIVE ElementsAt(_, _)
ElementsAt(text, p) ==
    LET o == ObjectAt(text, p)
    IN IF ~o.ok THEN [ok |-> FALSE, value |-> <<>>]
       ELSE IF p + 8 = Len(text) /\ text[p + 8] = Punct("]")
            THEN [ok |-> TRUE, value |-> <<o.value>>]
       ELSE IF p + 8 < Len(text) /\ text[p + 8] = Punct(",")
            THEN LET rest == ElementsAt(text, p + 9)
                 IN IF rest.ok
                    THEN [ok |-> TRUE, value |-> <<o.value>> \o rest.value]
                    ELSE rest
       ELSE [ok |-> FALSE, value |-> <<>>]

\* JSON.parse of a text holding an array of Todo objects: ok is FALSE where
\* JSON.parse throws a SyntaxError.
JSON_parse(text) ==
    IF Len(text) < 2 \/ text[1] # Punct("[") THEN [ok |-> FALSE, value |-> <<>>]
    ELSE IF Len(text) = 2
         THEN [ok |-> text[2] = Punct("]"), value |-> <<>>]
    ELSE ElementsAt(text, 2)

(***************************************************************************)
(* useTodo                                                                 *)
(***************************************************************************)
\* localStorage.getItem("todos"): null when the key is absent.
Absent == [present |-> FALSE, text |-> <<>>]
Item(text) == [present |-> TRUE, text |-> text]

\* A todo stored by an earlier session.
StoredTodo == [id |-> 0, todo |-> "a", done |-> TRUE]

\* What the storage may hold when the hook is first used: nothing, the empty
\* string, the text of the empty list, and texts cut short. (Texts of longer
\* lists are met when a component mounts again after the hook has written.)
InitialStorage ==
    {Absent, Item(<<>>), Item(JSON_stringify(<<>>)),
     Item(<<Punct("[")>>),
     Item(SubSeq(JSON_stringify(<<StoredTodo>>), 1, 5))}

\* localStorage.getItem("todos") || "[]"
TextToParse(st) ==
    IF st.present /\ st.text # <<>> THEN st.text ELSE JSON_stringify(<<>>)

\* init: JSON.parse(localStorage.getItem("todos") || "[]")
init(st) == JSON_parse(TextToParse(st))

\* The reducer applied to the queued actions in order, as a render does.
RECURSIVE ReduceQueue(_, _)
ReduceQueue(st, q) ==
    IF q = <<>> THEN [items |-> st, same |-> TRUE]
    ELSE LET first == todoReducer(st, Head(q))
             rest == ReduceQueue(first.items, Tail(q))
         IN [items |-> rest.items, same |-> first.same /\ rest.same]

\* The list the next render shows.
Pending == ReduceQueue(todos, queue).items

\* Mutant of EffectValue: the effect serializes initialState.
EffectValueInitial(list) == Item(JSON_stringify(initialState))

\* The value the [todos] effect writes.
EffectValue(list) == Item(JSON_stringify(list))

AddAction(todo) == [type |-> "add", payload |-> ObjectValue(todo)]
DeleteAction(id) == [type |-> "delete", payload |-> NumberValue(id)]
ToggleAction(id) == [type |-> "toggle", payload |-> NumberValue(id)]

\* Mutant of pendingTodosCount: the test of the filter is not negated.
pendingTodosCountDone(list) ==
    LET Test(t) == t.done IN Len(SelectSeq(list, Test))

\* The derived counts useTodo returns with the list of a render.
todosCount(list) == Len(list)

pendingTodosCount(list) ==
    LET Test(t) == ~t.done IN Len(SelectSeq(list, Test))

completedTodosCount(list) ==
    LET Test(t) == t.done IN Len(SelectSeq(list, Test))

\* The first render of a component using useTodo: useReducer calls init. A
\* SyntaxError of JSON.parse is raised to the component, which does not mount.
TodoMount ==
    /\ tphase = "unmounted"
    /\ LET parsed == init(storage)
       IN IF parsed.ok
          THEN /\ tphase' = "mounted"
               /\ todos' = parsed.value
               /\ effectPending' = TRUE
               /\ UNCHANGED thrown
          ELSE /\ tphase' = "crashed"
               /\ thrown' = "SyntaxError"
               /\ UNCHANGED <<todos, effectPending>>
    /\ UNCHANGED <<storage, queue, now>>
    /\ UNCHANGED <<fetchVars, reducerVars, otherVars>>

\* The component unmounts (effects of the last commit have run before).
TodoUnmount ==
    /\ tphase = "mounted"
    /\ ~effectPending
    /\ tphase' = "unmounted"
    /\ todos' = initialState
    /\ queue' = <<>>
    /\ UNCHANGED <<storage, effectPending, now, thrown>>
    /\ UNCHANGED <<fetchVars, reducerVars, otherVars>>

Dispatch(action) ==
    /\ tphase = "mounted"
    /\ Len(queue) < MaxQueue
    /\ queue' = Append(queue, action)
    /\ UNCHANGED <<storage, tphase, todos, effectPending, now, thrown>>
    /\ UNCHANGED <<fetchVars, reducerVars, otherVars>>

onNewTodo(text) ==
    /\ Len(Pending) < MaxTodos
    /\ Dispatch(AddAction([id |-> now, todo |-> text, done |-> FALSE]))

\* The ids a user passes to onDeleteTodo and onToggleTodo: each id of the
\* pending list, and AbsentId for every id that no todo has.
AbsentId == MaxTime + 1
CandidateIds == {Pending[k].id : k \in 1..Len(Pending)} \cup {AbsentId}

onDeleteTodo(id) == Dispatch(DeleteAction(id))

onToggleTodo(id) == Dispatch(ToggleAction(id))

\* A re-render: the queued actions are reduced; the effect is scheduled when
\* the dependency `todos` is another array than before.
Render ==
    /\ tphase = "mounted"
    /\ queue # <<>>
    /\ ~effectPending
    /\ LET r == ReduceQueue(todos, queue)
       IN /\ todos' = r.items
          /\ effectPending' = ~r.same
    /\ queue' = <<>>
    /\ UNCHANGED <<storage, tphase, now, thrown>>
    /\ UNCHANGED <<fetchVars, reducerVars, otherVars>>

\* The effect: localStorage.setItem("todos", JSON.stringify(todos)).
RunEffect ==
    /\ tphase = "mounted"
    /\ effectPending
    /\ storage' = EffectValue(todos)
    /\ effectPending' = FALSE
    /\ UNCHANGED <<tphase, todos, queue, now, thrown>>
    /\ UNCHANGED <<fetchVars, reducerVars, otherVars>>

\* A millisecond passes.
Tick ==
    /\ now < MaxTime
    /\ now' = now + 1
    /\ UNCHANGED <<storage, tphase, todos, queue, effectPending, thrown>>
    /\ UNCHANGED <<fetchVars, reducerVars, otherVars>>

TodoNext ==
    \/ TodoMount
    \/ TodoUnmount
    \/ \E text \in Texts : onNewTodo(text)
    \/ \E id \in CandidateIds : onDeleteTodo(id)
    \/ \E id \in CandidateIds : onToggleTodo(id)
    \/ Render
    \/ RunEffect
    \/ Tick

(***************************************************************************)
(* todoReducer called directly, on every list and action of the bounds.    *)
(***************************************************************************)
TodoSet == [id : 1..MaxLen, todo : {"a", "b"}, done : BOOLEAN]
Lists == UNION {[1..n -> TodoSet] : n \in 0..MaxLen}
ActionTypes == {"add", "delete", "toggle", "reset", ""}
ReducerActions ==
    {[type |-> ty, payload |-> ObjectValue(t)] : ty \in ActionTypes, t \in TodoSet}
    \cup {[type |-> ty, payload |-> NumberValue(n)] :
              ty \in ActionTypes \ {"add"}, n \in 1..(MaxLen + 1)}

NoResult == [items |-> <<>>, same |-> FALSE]

CallReducer ==
    /\ ~rDone
    /\ rResult' = todoReducer(rState, rAction)
    /\ rDone' = TRUE
    /\ UNCHANGED <<rState, rAction>>
    /\ UNCHANGED <<fetchVars, todoVars, otherVars>>

ReducerNext == CallReducer

(***************************************************************************)
(* useCounter                                                              *)
(***************************************************************************)
\* An optional argument of a call: given with a value, or left out.
Given(n) == [given |-> TRUE, value |-> n]
NotGiven == [given |-> FALSE, value |-> 0]

\* The defaults of `initialState: number=10` and `factor: number = 1`.
DefaultInitial == 10
DefaultFactor == 1

\* The arguments components pass to useCounter, and the factors they pass
\* to increment and decrement.
InitialArgs == {NotGiven, Given(0), Given(5)}
FactorArgs == {NotGiven, Given(3), Given(5)}

InitialParam(arg) == IF arg.given THEN arg.value ELSE DefaultInitial
FactorParam(arg) == IF arg.given THEN arg.value ELSE DefaultFactor

\* The arguments of setCounter: the updater of increment, the updater of
\* decrement, or the value reset passes.
IncrementUpdate(factor) == [kind |-> "increment", n |-> factor]
DecrementUpdate(factor) == [kind |-> "decrement", n |-> factor]
ValueUpdate(value) == [kind |-> "value", n |-> value]

\* Mutant of ApplyUpdate: the counter is kept from going below zero.
ApplyUpdateClamped(current, u) ==
    CASE u.kind = "increment" -> current + u.n
      [] u.kind = "decrement" -> IF current - u.n < 0 THEN 0 ELSE current - u.n
      [] OTHER -> u.n

\* One queued setCounter call applied to the current value.
ApplyUpdate(current, u) ==
    CASE u.kind = "increment" -> current + u.n
      [] u.kind = "decrement" -> current - u.n
      [] OTHER -> u.n

\* The queued setCounter calls applied in order, as a render does.
RECURSIVE ApplyUpdates(_, _)
ApplyUpdates(current, q) ==
    IF q = <<>> THEN current
    ELSE ApplyUpdates(ApplyUpdate(current, Head(q)), Tail(q))

\* The counter the next render shows.
PendingCounter == ApplyUpdates(counter, cQueue)

\* Mutant of ResetValue: reset sets the default initial value.
ResetValueDefault == DefaultInitial

\* The `initialState` in the closure of the reset function of the last render:
\* the parameter that render was called with.
ResetValue == cProp

\* The first render of a component using useCounter(arg).
CounterMount(arg) ==
    /\ cPhase = "unmounted"
    /\ cPhase' = "mounted"
    /\ counter' = InitialParam(arg)
    /\ cProp' = InitialParam(arg)
    /\ cCreated' = InitialParam(arg)
    /\ UNCHANGED cQueue
    /\ UNCHANGED <<fetchVars, todoVars, reducerVars, formVars, queryVars, todo2Vars>>

\* A re-render, the component calling useCounter(arg): the queued calls are
\* applied; useState ignores the argument; the functions returned close over
\* the parameter of this render.
CounterRender(arg) ==
    /\ cPhase = "mounted"
    /\ cQueue # <<>> \/ InitialParam(arg) # cProp
    /\ counter' = PendingCounter
    /\ cQueue' = <<>>
    /\ cProp' = InitialParam(arg)
    /\ UNCHANGED <<cPhase, cCreated>>
    /\ UNCHANGED <<fetchVars, todoVars, reducerVars, formVars, queryVars, todo2Vars>>

\* setCounter(u) can be called: the component is mounted (and the bounds of
\* the model leave room for the call).
CanSetCounter(u) ==
    /\ cPhase = "mounted"
    /\ Len(cQueue) < MaxQueue
    /\ ApplyUpdate(PendingCounter, u) \in (0 - MaxCount)..MaxCount

increment(arg) ==
    /\ CanSetCounter(IncrementUpdate(FactorParam(arg)))
    /\ cQueue' = Append(cQueue, IncrementUpdate(FactorParam(arg)))
    /\ UNCHANGED <<cPhase, counter, cProp, cCreated>>
    /\ UNCHANGED <<fetchVars, todoVars, reducerVars, formVars, queryVars, todo2Vars>>

decrement(arg) ==
    /\ CanSetCounter(DecrementUpdate(FactorParam(arg)))
    /\ cQueue' = Append(cQueue, DecrementUpdate(FactorParam(arg)))
    /\ UNCHANGED <<cPhase, counter, cProp, cCreated>>
    /\ UNCHANGED <<fetchVars, todoVars, reducerVars, formVars, queryVars, todo2Vars>>

reset ==
    /\ CanSetCounter(ValueUpdate(ResetValue))
    /\ cQueue' = Append(cQueue, ValueUpdate(ResetValue))
    /\ UNCHANGED <<cPhase, counter, cProp, cCreated>>
    /\ UNCHANGED <<fetchVars, todoVars, reducerVars, formVars, queryVars, todo2Vars>>

CounterNext ==
    \/ \E arg \in InitialArgs : CounterMount(arg)
    \/ \E arg \in InitialArgs : CounterRender(arg)
    \/ \E arg \in FactorArgs : increment(arg)
    \/ \E arg \in FactorArgs : decrement(arg)
    \/ reset

(***************************************************************************)
(* useForm                                                                 *)
(***************************************************************************)
\* The fields of the records components pass to useForm, the values of
\* fields, and the names of the inputs whose change events reach onInputChange.
FieldNames == {"email", "password"}
FieldValues == {"", "x"}
InputNames == FieldNames \cup {"nick"}

\* An object: its identity (what a reference compares) and its fields.
\* Identity 0 is that of the objects the hook itself creates; the objects a
\* component constructs have the identities 1, 2, ...
NoForm == [ref |-> 0, fields |-> [n \in FieldNames |-> ""]]

\* The arguments of setFormState: the updater of onInputChange, or the object
\* onResetForm passes.
MergeUpdate(name, value) ==
    [kind |-> "merge", name |-> name, value |-> value, obj |-> NoForm]
ObjectUpdate(obj) ==
    [kind |-> "object", name |-> "", value |-> "", obj |-> obj]

\* Mutant of MergeField: the new state holds the changed field only.
MergeFieldAlone(current, name, value) ==
    [ref |-> 0, fields |-> [k \in {name} |-> value]]

\* ({ ...current, [name]: value }): a new object with the fields of current
\* and the field name set to value.
MergeField(current, name, value) ==
    [ref |-> 0,
     fields |-> [k \in DOMAIN current.fields \cup {name} |->
                    IF k = name THEN value ELSE current.fields[k]]]

\* One queued setFormState call applied to the current state.
ApplyFormUpdate(current, u) ==
    IF u.kind = "merge" THEN MergeField(current, u.name, u.value) ELSE u.obj

\* The queued setFormState calls applied in order, as a render does.
RECURSIVE ApplyFormUpdates(_, _)
ApplyFormUpdates(current, q) ==
    IF q = <<>> THEN current
    ELSE ApplyFormUpdates(ApplyFormUpdate(current, Head(q)), Tail(q))

\* The form state the next render shows.
PendingForm == ApplyFormUpdates(formState, fQueue)

\* The identities of the component's objects that are still referenced.
LiveRefs ==
    {fProp.ref, fCreated.ref, formState.ref}
        \cup {fQueue[k].obj.ref : k \in DOMAIN fQueue}

\* The objects a component can construct now: any fields, the next identity.
FreshForms ==
    {[ref |-> r, fields |-> f] :
        r \in {n \in 1..MaxObjects :
                  /\ \A l \in LiveRefs : n > l
                  /\ n - 1 \in LiveRefs \cup {0}},
        f \in [FieldNames -> FieldValues]}

\* The objects a component can pass to useForm on a re-render: the one it
\* passed last time, the one it passed first, or one it constructs now (an
\* object literal in the call constructs one on every render).
RenderForms == {fProp, fCreated} \cup FreshForms

\* Mutant of ResetForm: onResetForm passes a copy of the object.
ResetFormCopy == [ref |-> 0, fields |-> fProp.fields]

\* The `form` in the closure of the onResetForm of the last render: the
\* parameter that render was called with.
ResetForm == fProp

\* The first render of a component using useForm(obj): the state is the
\* object passed, not a copy.
FormMount(obj) ==
    /\ fPhase = "unmounted"
    /\ fPhase' = "mounted"
    /\ formState' = obj
    /\ fProp' = obj
    /\ fCreated' = obj
    /\ UNCHANGED fQueue
    /\ UNCHANGED <<fetchVars, todoVars, reducerVars, counterVars, queryVars, todo2Vars>>

\* A re-render, the component calling useForm(obj): the queued calls are
\* applied; useState ignores the argument; the functions returned close over
\* the parameter of this render.
FormRender(obj) ==
    /\ fPhase = "mounted"
    /\ fQueue # <<>> \/ obj # fProp
    /\ formState' = PendingForm
    /\ fQueue' = <<>>
    /\ fProp' = obj
    /\ UNCHANGED <<fPhase, fCreated>>
    /\ UNCHANGED <<fetchVars, todoVars, reducerVars, counterVars, queryVars, todo2Vars>>

\* The change event of the input called name, holding value.
onInputChange(name, value) ==
    /\ fPhase = "mounted"
    /\ Len(fQueue) < MaxQueue
    /\ fQueue' = Append(fQueue, MergeUpdate(name, value))
    /\ UNCHANGED <<fPhase, formState, fProp, fCreated>>
    /\ UNCHANGED <<fetchVars, todoVars, reducerVars, counterVars, queryVars, todo2Vars>>

onResetForm ==
    /\ fPhase = "mounted"
    /\ Len(fQueue) < MaxQueue
    /\ fQueue' = Append(fQueue, ObjectUpdate(ResetForm))
    /\ UNCHANGED <<fPhase, formState, fProp, fCreated>>
    /\ UNCHANGED <<fetchVars, todoVars, reducerVars, counterVars, queryVars, todo2Vars>>

FormNext ==
    \/ \E obj \in FreshForms : FormMount(obj)
    \/ \E obj \in RenderForms : FormRender(obj)
    \/ \E name \in InputNames, value \in FieldValues : onInputChange(name, value)
    \/ onResetForm

(***************************************************************************)
(* useFetchRickAndMorty                                                    *)
(***************************************************************************)
\* The urls and query keys components pass; the url a component has not yet
\* chosen is the empty string.
QueryUrls == {"", "/a", "/b"}
QueryKeys == {[given |-> FALSE, value |-> <<>>], [given |-> TRUE, value |-> <<"k">>]}

\* The defaults of staleTime, gcTime, retry and retryDelay.
DefaultStaleTime == 1000 * 60 * 5
DefaultGcTime == 1000 * 60 * 30
DefaultRetry == 3
DefaultRetryDelay == 1000

\* The configurations components pass: each optional field left out or given.
QueryConfigs ==
    [url : QueryUrls, queryKey : QueryKeys,
     staleTime : {NotGiven, Given(0)}, gcTime : {NotGiven, Given(0)},
     retry : {NotGiven, Given(0)}, retryDelay : {NotGiven, Given(0)}]

\* No configuration, no options: the hook has not been called.
NoConfig ==
    [url |-> "", queryKey |-> [given |-> FALSE, value |-> <<>>],
     staleTime |-> NotGiven, gcTime |-> NotGiven, retry |-> NotGiven,
     retryDelay |-> NotGiven]

NoOptions ==
    [queryKey |-> <<>>, staleTime |-> 0, gcTime |-> 0, retry |-> 0,
     retryDelay |-> 0, enabled |-> FALSE, refetchOnWindowFocus |-> FALSE]

\* Mutant of QueryOptions: the query is always enabled.
QueryOptionsEnabled(config) ==
    [queryKey |-> IF config.queryKey.given THEN config.queryKey.value ELSE <<config.url>>,
     staleTime |-> IF config.staleTime.given THEN config.staleTime.value ELSE DefaultStaleTime,
     gcTime |-> IF config.gcTime.given THEN config.gcTime.value ELSE DefaultGcTime,
     retry |-> IF config.retry.given THEN config.retry.value ELSE DefaultRetry,
     retryDelay |-> IF config.retryDelay.given THEN config.retryDelay.value ELSE DefaultRetryDelay,
     enabled |-> TRUE,
     refetchOnWindowFocus |-> FALSE]

\* The options useFetchRickAndMorty hands to useQuery for a configuration
\* (the queryFn is the action QueryFn below).
QueryOptions(config) ==
    [queryKey |-> IF config.queryKey.given THEN config.queryKey.value ELSE <<config.url>>,
     staleTime |-> IF config.staleTime.given THEN config.staleTime.value ELSE DefaultStaleTime,
     gcTime |-> IF config.gcTime.given THEN config.gcTime.value ELSE DefaultGcTime,
     retry |-> IF config.retry.given THEN config.retry.value ELSE DefaultRetry,
     retryDelay |-> IF config.retryDelay.given THEN config.retryDelay.value ELSE DefaultRetryDelay,
     enabled |-> config.url # "",
     refetchOnWindowFocus |-> FALSE]

\* No request of the query is in flight.
NoRequest == [active |-> FALSE, url |-> ""]

\* The first render of a component using useFetchRickAndMorty(config).
QueryMount(config) ==
    /\ qPhase = "unmounted"
    /\ qPhase' = "mounted"
    /\ qConfig' = config
    /\ qOptions' = QueryOptions(config)
    /\ qStatus' = "pending"
    /\ qInFlight' = NoRequest
    /\ qFailures' = 0
    /\ UNCHANGED qCalls
    /\ UNCHANGED <<fetchVars, todoVars, reducerVars, counterVars, formVars, todo2Vars>>

\* A re-render with another configuration: useQuery gets the new options; a
\* new query key makes it observe another query.
QueryRender(config) ==
    /\ qPhase = "mounted"
    /\ config # qConfig
    /\ qConfig' = config
    /\ qOptions' = QueryOptions(config)
    /\ IF QueryOptions(config).queryKey = qOptions.queryKey
          THEN UNCHANGED <<qStatus, qInFlight, qFailures>>
          ELSE qStatus' = "pending" /\ qInFlight' = NoRequest /\ qFailures' = 0
    /\ UNCHANGED <<qPhase, qCalls>>
    /\ UNCHANGED <<fetchVars, todoVars, reducerVars, counterVars, formVars, todo2Vars>>

QueryUnmount ==
    /\ qPhase = "mounted"
    /\ qPhase' = "unmounted"
    /\ qConfig' = NoConfig
    /\ qOptions' = NoOptions
    /\ qStatus' = "pending"
    /\ qInFlight' = NoRequest
    /\ qFailures' = 0
    /\ UNCHANGED qCalls
    /\ UNCHANGED <<fetchVars, todoVars, reducerVars, counterVars, formVars, todo2Vars>>

\* The library runs the query: it calls queryFn, which requests the url of
\* the render. The library does so, for whichever of its reasons (first
\* use, stale data, a refetch), only for an enabled query.
QueryFn ==
    /\ qPhase = "mounted"
    /\ qOptions.enabled
    /\ ~qInFlight.active
    /\ qCalls[qConfig.url] < MaxCalls
    /\ qInFlight' = [active |-> TRUE, url |-> qConfig.url]
    /\ qCalls' = [qCalls EXCEPT ![qConfig.url] = @ + 1]
    /\ qFailures' = 0
    /\ UNCHANGED <<qPhase, qConfig, qOptions, qStatus>>
    /\ UNCHANGED <<fetchVars, todoVars, reducerVars, counterVars, formVars, todo2Vars>>

\* The request fails, or its response is not ok or not JSON: queryFn throws,
\* and the library, while the query is enabled and has retries left, calls
\* it again.
QueryFnThrowsRetry ==
    /\ qInFlight.active
    /\ qOptions.enabled
    /\ qFailures < qOptions.retry
    /\ qCalls[qInFlight.url] < MaxCalls
    /\ qFailures' = qFailures + 1
    /\ qCalls' = [qCalls EXCEPT ![qInFlight.url] = @ + 1]
    /\ UNCHANGED <<qPhase, qConfig, qOptions, qStatus, qInFlight>>
    /\ UNCHANGED <<fetchVars, todoVars, reducerVars, counterVars, formVars, todo2Vars>>

\* queryFn throws and the library does not retry: the query is in error.
QueryFnThrows ==
    /\ qInFlight.active
    /\ ~qOptions.enabled \/ qFailures >= qOptions.retry
    /\ qStatus' = "error"
    /\ qInFlight' = NoRequest
    /\ UNCHANGED <<qPhase, qConfig, qOptions, qCalls, qFailures>>
    /\ UNCHANGED <<fetchVars, todoVars, reducerVars, counterVars, formVars, todo2Vars>>

\* queryFn returns the parsed response.
QueryFnReturns ==
    /\ qInFlight.active
    /\ qStatus' = "success"
    /\ qInFlight' = NoRequest
    /\ qFailures' = 0
    /\ UNCHANGED <<qPhase, qConfig, qOptions, qCalls>>
    /\ UNCHANGED <<fetchVars, todoVars, reducerVars, counterVars, formVars, todo2Vars>>

QueryNext ==
    \/ \E config \in QueryConfigs : QueryMount(config)
    \/ \E config \in QueryConfigs : QueryRender(config)
    \/ QueryUnmount
    \/ QueryFn
    \/ QueryFnThrowsRetry
    \/ QueryFnThrows
    \/ QueryFnReturns

(***************************************************************************)
(* Two components using useTodo                                            *)
(***************************************************************************)
\* The components; each has its own useReducer state and its own effect, and
\* all of them read and write the one item "todos" of localStorage.
\* Their steps interleave within one millisecond of the clock: what is stored,
\* and by whom, does not depend on the ids.
TodoInstances == {1, 2}

\* What the storage holds when the first of them mounts.
SharedInitialStorage == {Absent, Item(JSON_stringify(<<>>))}

\* The list the next render of component i shows.
PendingOf(i) == ReduceQueue(uTodos[i], uQueue[i]).items

\* The first render of component i: useReducer calls init, which reads the
\* storage as it is now.
TodoMountOf(i) ==
    /\ uPhase[i] = "unmounted"
    /\ LET parsed == init(storage)
       IN IF parsed.ok
          THEN /\ uPhase' = [uPhase EXCEPT ![i] = "mounted"]
               /\ uTodos' = [uTodos EXCEPT ![i] = parsed.value]
               /\ uEffect' = [uEffect EXCEPT ![i] = TRUE]
               /\ UNCHANGED thrown
          ELSE /\ uPhase' = [uPhase EXCEPT ![i] = "crashed"]
               /\ thrown' = "SyntaxError"
               /\ UNCHANGED <<uTodos, uEffect>>
    /\ UNCHANGED <<storage, uQueue, now>>
    /\ UNCHANGED <<tphase, todos, queue, effectPending>>
    /\ UNCHANGED <<fetchVars, reducerVars, counterVars, formVars, queryVars>>

TodoUnmountOf(i) ==
    /\ uPhase[i] = "mounted"
    /\ ~uEffect[i]
    /\ uPhase' = [uPhase EXCEPT ![i] = "unmounted"]
    /\ uTodos' = [uTodos EXCEPT ![i] = initialState]
    /\ uQueue' = [uQueue EXCEPT ![i] = <<>>]
    /\ UNCHANGED uEffect
    /\ UNCHANGED todoVars
    /\ UNCHANGED <<fetchVars, reducerVars, counterVars, formVars, queryVars>>

DispatchOf(i, action) ==
    /\ uPhase[i] = "mounted"
    /\ Len(uQueue[i]) < MaxSharedQueue
    /\ uQueue' = [uQueue EXCEPT ![i] = Append(@, action)]
    /\ UNCHANGED <<uPhase, uTodos, uEffect>>
    /\ UNCHANGED todoVars
    /\ UNCHANGED <<fetchVars, reducerVars, counterVars, formVars, queryVars>>

onNewTodoOf(i, text) ==
    /\ Len(PendingOf(i)) < MaxSharedTodos
    /\ DispatchOf(i, AddAction([id |-> now, todo |-> text, done |-> FALSE]))

\* The ids the user of component i passes: those of its pending list.
CandidateIdsOf(i) == {PendingOf(i)[k].id : k \in 1..Len(PendingOf(i))}

onDeleteTodoOf(i, id) == DispatchOf(i, DeleteAction(id))

onToggleTodoOf(i, id) == DispatchOf(i, ToggleAction(id))

RenderOf(i) ==
    /\ uPhase[i] = "mounted"
    /\ uQueue[i] # <<>>
    /\ ~uEffect[i]
    /\ LET r == ReduceQueue(uTodos[i], uQueue[i])
       IN /\ uTodos' = [uTodos EXCEPT ![i] = r.items]
          /\ uEffect' = [uEffect EXCEPT ![i] = ~r.same]
    /\ uQueue' = [uQueue EXCEPT ![i] = <<>>]
    /\ UNCHANGED uPhase
    /\ UNCHANGED todoVars
    /\ UNCHANGED <<fetchVars, reducerVars, counterVars, formVars, queryVars>>

\* Mutant of RunEffectOf: every component writes the list of the first one.
RunEffectOfFirst(i) ==
    /\ uPhase[i] = "mounted"
    /\ uEffect[i]
    /\ storage' = EffectValue(uTodos[1])
    /\ uEffect' = [uEffect EXCEPT ![i] = FALSE]
    /\ UNCHANGED <<uPhase, uTodos, uQueue>>
    /\ UNCHANGED <<tphase, todos, queue, effectPending, now, thrown>>
    /\ UNCHANGED <<fetchVars, reducerVars, counterVars, formVars, queryVars>>

\* The effect of component i: localStorage.setItem("todos",
\* JSON.stringify(todos)) with its own list, whatever the item holds.
RunEffectOf(i) ==
    /\ uPhase[i] = "mounted"
    /\ uEffect[i]
    /\ storage' = EffectValue(uTodos[i])
    /\ uEffect' = [uEffect EXCEPT ![i] = FALSE]
    /\ UNCHANGED <<uPhase, uTodos, uQueue>>
    /\ UNCHANGED <<tphase, todos, queue, effectPending, now, thrown>>
    /\ UNCHANGED <<fetchVars, reducerVars, counterVars, formVars, queryVars>>

\* The steps of component i.
StepOf(i) ==
    \/ TodoMountOf(i)
    \/ TodoUnmountOf(i)
    \/ \E text \in Texts : onNewTodoOf(i, text)
    \/ \E id \in CandidateIdsOf(i) : onDeleteTodoOf(i, id)
    \/ \E id \in CandidateIdsOf(i) : onToggleTodoOf(i, id)
    \/ RenderOf(i)
    \/ RunEffectOf(i)

Todo2Next ==
    \/ \E i \in TodoInstances : TodoMountOf(i)
    \/ \E i \in TodoInstances : TodoUnmountOf(i)
    \/ \E i \in TodoInstances, text \in Texts : onNewTodoOf(i, text)
    \/ \E i \in TodoInstances : \E id \in CandidateIdsOf(i) : onDeleteTodoOf(i, id)
    \/ \E i \in TodoInstances : \E id \in CandidateIdsOf(i) : onToggleTodoOf(i, id)
    \/ \E i \in TodoInstances : RenderOf(i)
    \/ \E i \in TodoInstances : RunEffectOf(i)

(***************************************************************************)
(* Specifications                                                          *)
(***************************************************************************)
\* The reducer has not been called.
NoAction == [type |-> "", payload |-> NumberValue(1)]

\* useFetch after module load, no component mounted; the other hooks unused.
FetchInit ==
    /\ mounted = [i \in Instances |-> FALSE]
    /\ url = [i \in Instances |-> NoUrl]
    /\ state = [i \in Instances |-> LoadingState]
    /\ requests = EmptyBag
    /\ cache = [u \in Urls |-> Undefined]
    /\ updateOnUnmounted = FALSE
    /\ rejected = FALSE
    /\ storage = Absent
    /\ tphase = "unmounted"
    /\ todos = initialState
    /\ queue = <<>>
    /\ effectPending = FALSE
    /\ now = 1
    /\ thrown = "none"
    /\ rState = <<>>
    /\ rAction = NoAction
    /\ rResult = NoResult
    /\ rDone = FALSE
    /\ cPhase = "unmounted"
    /\ counter = 0
    /\ cQueue = <<>>
    /\ cProp = 0
    /\ cCreated = 0
    /\ fPhase = "unmounted"
    /\ formState = NoForm
    /\ fQueue = <<>>
    /\ fProp = NoForm
    /\ fCreated = NoForm
    /\ qPhase = "unmounted"
    /\ qConfig = NoConfig
    /\ qOptions = NoOptions
    /\ qStatus = "pending"
    /\ qInFlight = NoRequest
    /\ qCalls = [u \in QueryUrls |-> 0]
    /\ qFailures = 0
    /\ uPhase = [i \in TodoInstances |-> "unmounted"]
    /\ uTodos = [i \in TodoInstances |-> initialState]
    /\ uQueue = [i \in TodoInstances |-> <<>>]
    /\ uEffect = [i \in TodoInstances |-> FALSE]

\* useTodo before the first render, for each content of the storage.
TodoInit ==
    /\ mounted = [i \in Instances |-> FALSE]
    /\ url = [i \in Instances |-> NoUrl]
    /\ state = [i \in Instances |-> LoadingState]
    /\ requests = EmptyBag
    /\ cache = [u \in Urls |-> Undefined]
    /\ updateOnUnmounted = FALSE
    /\ rejected = FALSE
    /\ storage \in InitialStorage
    /\ tphase = "unmounted"
    /\ todos = initialState
    /\ queue = <<>>
    /\ effectPending = FALSE
    /\ now = 1
    /\ thrown = "none"
    /\ rState = <<>>
    /\ rAction = NoAction
    /\ rResult = NoResult
    /\ rDone = FALSE
    /\ cPhase = "unmounted"
    /\ counter = 0
    /\ cQueue = <<>>
    /\ cProp = 0
    /\ cCreated = 0
    /\ fPhase = "unmounted"
    /\ formState = NoForm
    /\ fQueue = <<>>
    /\ fProp = NoForm
    /\ fCreated = NoForm
    /\ qPhase = "unmounted"
    /\ qConfig = NoConfig
    /\ qOptions = NoOptions
    /\ qStatus = "pending"
    /\ qInFlight = NoRequest
    /\ qCalls = [u \in QueryUrls |-> 0]
    /\ qFailures = 0
    /\ uPhase = [i \in TodoInstances |-> "unmounted"]
    /\ uTodos = [i \in TodoInstances |-> initialState]
    /\ uQueue = [i \in TodoInstances |-> <<>>]
    /\ uEffect = [i \in TodoInstances |-> FALSE]

\* todoReducer about to be called with a list and an action.
ReducerInit ==
    /\ mounted = [i \in Instances |-> FALSE]
    /\ url = [i \in Instances |-> NoUrl]
    /\ state = [i \in Instances |-> LoadingState]
    /\ requests = EmptyBag
    /\ cache = [u \in Urls |-> Undefined]
    /\ updateOnUnmounted = FALSE
    /\ rejected = FALSE
    /\ storage = Absent
    /\ tphase = "unmounted"
    /\ todos = initialState
    /\ queue = <<>>
    /\ effectPending = FALSE
    /\ now = 1
    /\ thrown = "none"
    /\ rState \in Lists
    /\ rAction \in ReducerActions
    /\ rResult = NoResult
    /\ rDone = FALSE
    /\ cPhase = "unmounted"
    /\ counter = 0
    /\ cQueue = <<>>
    /\ cProp = 0
    /\ cCreated = 0
    /\ fPhase = "unmounted"
    /\ formState = NoForm
    /\ fQueue = <<>>
    /\ fProp = NoForm
    /\ fCreated = NoForm
    /\ qPhase = "unmounted"
    /\ qConfig = NoConfig
    /\ qOptions = NoOptions
    /\ qStatus = "pending"
    /\ qInFlight = NoRequest
    /\ qCalls = [u \in QueryUrls |-> 0]
    /\ qFailures = 0
    /\ uPhase = [i \in TodoInstances |-> "unmounted"]
    /\ uTodos = [i \in TodoInstances |-> initialState]
    /\ uQueue = [i \in TodoInstances |-> <<>>]
    /\ uEffect = [i \in TodoInstances |-> FALSE]

\* useCounter before the first render.
CounterInit ==
    /\ mounted = [i \in Instances |-> FALSE]
    /\ url = [i \in Instances |-> NoUrl]
    /\ state = [i \in Instances |-> LoadingState]
    /\ requests = EmptyBag
    /\ cache = [u \in Urls |-> Undefined]
    /\ updateOnUnmounted = FALSE
    /\ rejected = FALSE
    /\ storage = Absent
    /\ tphase = "unmounted"
    /\ todos = initialState
    /\ queue = <<>>
    /\ effectPending = FALSE
    /\ now = 1
    /\ thrown = "none"
    /\ rState = <<>>
    /\ rAction = NoAction
    /\ rResult = NoResult
    /\ rDone = FALSE
    /\ cPhase = "unmounted"
    /\ counter = 0
    /\ cQueue = <<>>
    /\ cProp = 0
    /\ cCreated = 0
    /\ fPhase = "unmounted"
    /\ formState = NoForm
    /\ fQueue = <<>>
    /\ fProp = NoForm
    /\ fCreated = NoForm
    /\ qPhase = "unmounted"
    /\ qConfig = NoConfig
    /\ qOptions = NoOptions
    /\ qStatus = "pending"
    /\ qInFlight = NoRequest
    /\ qCalls = [u \in QueryUrls |-> 0]
    /\ qFailures = 0
    /\ uPhase = [i \in TodoInstances |-> "unmounted"]
    /\ uTodos = [i \in TodoInstances |-> initialState]
    /\ uQueue = [i \in TodoInstances |-> <<>>]
    /\ uEffect = [i \in TodoInstances |-> FALSE]

\* useForm before the first render.
FormInit ==
    /\ mounted = [i \in Instances |-> FALSE]
    /\ url = [i \in Instances |-> NoUrl]
    /\ state = [i \in Instances |-> LoadingState]
    /\ requests = EmptyBag
    /\ cache = [u \in Urls |-> Undefined]
    /\ updateOnUnmounted = FALSE
    /\ rejected = FALSE
    /\ storage = Absent
    /\ tphase = "unmounted"
    /\ todos = initialState
    /\ queue = <<>>
    /\ effectPending = FALSE
    /\ now = 1
    /\ thrown = "none"
    /\ rState = <<>>
    /\ rAction = NoAction
    /\ rResult = NoResult
    /\ rDone = FALSE
    /\ cPhase = "unmounted"
    /\ counter = 0
    /\ cQueue = <<>>
    /\ cProp = 0
    /\ cCreated = 0
    /\ fPhase = "unmounted"
    /\ formState = NoForm
    /\ fQueue = <<>>
    /\ fProp = NoForm
    /\ fCreated = NoForm
    /\ qPhase = "unmounted"
    /\ qConfig = NoConfig
    /\ qOptions = NoOptions
    /\ qStatus = "pending"
    /\ qInFlight = NoRequest
    /\ qCalls = [u \in QueryUrls |-> 0]
    /\ qFailures = 0
    /\ uPhase = [i \in TodoInstances |-> "unmounted"]
    /\ uTodos = [i \in TodoInstances |-> initialState]
    /\ uQueue = [i \in TodoInstances |-> <<>>]
    /\ uEffect = [i \in TodoInstances |-> FALSE]

\* useFetchRickAndMorty before the first render.
QueryInit ==
    /\ mounted = [i \in Instances |-> FALSE]
    /\ url = [i \in Instances |-> NoUrl]
    /\ state = [i \in Instances |-> LoadingState]
    /\ requests = EmptyBag
    /\ cache = [u \in Urls |-> Undefined]
    /\ updateOnUnmounted = FALSE
    /\ rejected = FALSE
    /\ storage = Absent
    /\ tphase = "unmounted"
    /\ todos = initialState
    /\ queue = <<>>
    /\ effectPending = FALSE
    /\ now = 1
    /\ thrown = "none"
    /\ rState = <<>>
    /\ rAction = NoAction
    /\ rResult = NoResult
    /\ rDone = FALSE
    /\ cPhase = "unmounted"
    /\ counter = 0
    /\ cQueue = <<>>
    /\ cProp = 0
    /\ cCreated = 0
    /\ fPhase = "unmounted"
    /\ formState = NoForm
    /\ fQueue = <<>>
    /\ fProp = NoForm
    /\ fCreated = NoForm
    /\ qPhase = "unmounted"
    /\ qConfig = NoConfig
    /\ qOptions = NoOptions
    /\ qStatus = "pending"
    /\ qInFlight = NoRequest
    /\ qCalls = [u \in QueryUrls |-> 0]
    /\ qFailures = 0
    /\ uPhase = [i \in TodoInstances |-> "unmounted"]
    /\ uTodos = [i \in TodoInstances |-> initialState]
    /\ uQueue = [i \in TodoInstances |-> <<>>]
    /\ uEffect = [i \in TodoInstances |-> FALSE]

\* Two components using useTodo, before their first renders.
Todo2Init ==
    /\ mounted = [i \in Instances |-> FALSE]
    /\ url = [i \in Instances |-> NoUrl]
    /\ state = [i \in Instances |-> LoadingState]
    /\ requests = EmptyBag
    /\ cache = [u \in Urls |-> Undefined]
    /\ updateOnUnmounted = FALSE
    /\ rejected = FALSE
    /\ storage \in SharedInitialStorage
    /\ tphase = "unmounted"
    /\ todos = initialState
    /\ queue = <<>>
    /\ effectPending = FALSE
    /\ now = 1
    /\ thrown = "none"
    /\ rState = <<>>
    /\ rAction = NoAction
    /\ rResult = NoResult
    /\ rDone = FALSE
    /\ cPhase = "unmounted"
    /\ counter = 0
    /\ cQueue = <<>>
    /\ cProp = 0
    /\ cCreated = 0
    /\ fPhase = "unmounted"
    /\ formState = NoForm
    /\ fQueue = <<>>
    /\ fProp = NoForm
    /\ fCreated = NoForm
    /\ qPhase = "unmounted"
    /\ qConfig = NoConfig
    /\ qOptions = NoOptions
    /\ qStatus = "pending"
    /\ qInFlight = NoRequest
    /\ qCalls = [u \in QueryUrls |-> 0]
    /\ qFailures = 0
    /\ uPhase = [i \in TodoInstances |-> "unmounted"]
    /\ uTodos = [i \in TodoInstances |-> initialState]
    /\ uQueue = [i \in TodoInstances |-> <<>>]
    /\ uEffect = [i \in TodoInstances |-> FALSE]

SpecFetch == FetchInit /\ [][FetchNext]_vars

SpecTodo == TodoInit /\ [][TodoNext]_vars

SpecReducer == ReducerInit /\ [][ReducerNext]_vars

SpecCounter == CounterInit /\ [][CounterNext]_vars

SpecForm == FormInit /\ [][FormNext]_vars

SpecQuery == QueryInit /\ [][QueryNext]_vars

SpecTodo2 == Todo2Init /\ [][Todo2Next]_vars

(***************************************************************************)
(* Properties of useFetch                                                  *)
(***************************************************************************)
\* The steps in which the suspended call r ends, with a result or a failure.
Fails(r) ==
    \/ \E t \in Thrown : FetchRejects(r, t)
    \/ \E s \in Statuses : ~Ok(s) /\ FetchResponds(r, s)
    \/ \E t \in Thrown : JsonRejects(r, t)

Completes(r) == Fails(r) \/ \E v \in JsonValues : JsonResolves(r, v)

\* C1: when the component was unmounted before the response resolved, setState
\* is not called with the response, and the parsed data is written into the
\* cache under the url of the request.
C1_UnmountedResultNotApplied ==
    [][\A r \in DOMAIN requests, v \in JsonValues :
          (JsonResolves(r, v) /\ r.unmounted)
              => (~updateOnUnmounted' /\ cache'[r.url] = v)]_vars

\* C2: the result (success or failure) of a request whose url argument has
\* been replaced since it started leaves the state of the instance unchanged.
C2_StaleResultDiscarded ==
    [][\A r \in DOMAIN requests :
          (Completes(r) /\ ~r.effectIsMounted /\ ~r.unmounted)
              => state'[r.inst] = state[r.inst]]_vars

\* C3: a fetch trigger (mount or url change) for a url that has a cache entry
\* issues no request and ends in the success state holding the cached value.
C3_CacheHitForEveryValue ==
    [][\A i \in Instances, u \in Urls :
          ((Mount(i, u) \/ SetUrl(i, u)) /\ cache[u] # Undefined)
              => /\ BagCardinality(requests') = BagCardinality(requests)
                 /\ state'[i] = [data |-> cache[u], loading |-> FALSE,
                                 hasError |-> FALSE, error |-> NoError]]_vars

\* C4: a failure of a fetch of a mounted instance (network failure, status
\* that is not successful, body that is no JSON) gives the state
\* {data: null, loading: false, hasError: true, error: message}, the message
\* being 'HTTP error! status: c' for a status c; the promise of fetchData is
\* not rejected and the cache is left as it was.
C4_FailureState ==
    [][\A r \in DOMAIN requests :
          ~r.unmounted =>
            /\ \A t \in Thrown :
                  (FetchRejects(r, t) \/ JsonRejects(r, t)) =>
                     /\ state'[r.inst] =
                          [data |-> Null, loading |-> FALSE, hasError |-> TRUE,
                           error |-> IF t.isError THEN t.message
                                     ELSE <<"An error occurred">>]
                     /\ state'[r.inst].error # NoError
                     /\ cache' = cache /\ ~rejected'
            /\ \A c \in Statuses :
                  (~Ok(c) /\ FetchResponds(r, c)) =>
                     /\ state'[r.inst] =
                          [data |-> Null, loading |-> FALSE, hasError |-> TRUE,
                           error |-> <<"HTTP error! status: ", ToString(c)>>]
                     /\ cache' = cache /\ ~rejected']_vars

\* C4: a mounted instance shows the failure of a 404 answer, and the cache
\* holds nothing for its url.
C4_Witness ==
    \E i \in Instances :
        /\ mounted[i]
        /\ state[i] = [data |-> Null, loading |-> FALSE, hasError |-> TRUE,
                       error |-> <<"HTTP error! status: ", "404">>]
        /\ cache[url[i]] = Undefined

\* C17: in every state of a mounted useFetch, loading means no data, no error
\* flag and no error; the error flag means no data, not loading, and an error
\* message.
C17_StateInvariant ==
    \A i \in Instances :
        mounted[i] =>
            /\ state[i].loading = TRUE =>
                 /\ state[i].data = Null
                 /\ state[i].hasError = FALSE
                 /\ state[i].error = NoError
            /\ state[i].hasError = TRUE =>
                 /\ state[i].data = Null
                 /\ state[i].loading = FALSE
                 /\ state[i].error # NoError

\* One component is loading while the other shows a failure.
C17_Witness ==
    /\ mounted[1] /\ state[1].loading = TRUE
    /\ mounted[2] /\ state[2].hasError = TRUE

\* C18: the cache starts empty; no step removes the entry of a url that has
\* one, whatever fetches, url changes, mounts and unmounts happen; and the
\* entry of a url u comes into being only in the step in which a request of u
\* ends with a parsed response.
C18_CacheLifetime ==
    /\ \A u \in Urls : cache[u] = Undefined
    /\ [][\A u \in Urls :
             /\ cache[u] # Undefined => cache'[u] # Undefined
             /\ (cache[u] = Undefined /\ cache'[u] # Undefined) =>
                    \E r \in DOMAIN requests, v \in JsonValues :
                        /\ r.url = u
                        /\ JsonResolves(r, v)
                        /\ cache'[u] = v]_vars

\* The entries of both urls are there after every component has unmounted
\* and every request has ended.
C18_Witness ==
    /\ \A u \in Urls : cache[u] # Undefined
    /\ \A i \in Instances : ~mounted[i]
    /\ requests = EmptyBag

(***************************************************************************)
(* Properties of useTodo                                                   *)
(***************************************************************************)
\* C5: once every dispatched mutation has been reduced and the effect has
\* run, the item "todos" is the JSON text of the current list.
C5_StorageIsSerializedList ==
    (tphase = "mounted" /\ queue = <<>> /\ ~effectPending)
        => (storage.present /\ storage.text = JSON_stringify(todos))

\* C5: a list of two todos, one added and toggled, has been persisted.
C5_Witness ==
    /\ tphase = "mounted" /\ queue = <<>> /\ ~effectPending
    /\ Len(todos) = 2
    /\ \E k \in 1..2 : todos[k].done
    /\ storage = Item(JSON_stringify(todos))

\* C6: the first render takes the parsed content of the item "todos"; when
\* the item is absent or no JSON, the list is empty and nothing is raised.
C6_InitDegradesToEmptyList ==
    [][TodoMount =>
          IF ~storage.present \/ ~JSON_parse(storage.text).ok
          THEN todos' = <<>> /\ thrown' = "none" /\ tphase' = "mounted"
          ELSE todos' = JSON_parse(storage.text).value]_vars

\* C7: onNewTodo(text) makes the list one longer, its last element
\* {id: now, todo: text, done: false}, the elements before it the old list.
C7_AddAppends ==
    [][\A text \in Texts :
          onNewTodo(text) =>
            /\ Len(Pending') = Len(Pending) + 1
            /\ Pending'[Len(Pending')] = [id |-> now, todo |-> text, done |-> FALSE]
            /\ SubSeq(Pending', 1, Len(Pending)) = Pending]_vars

\* C7: a todo has been added to a list that was not empty.
C7_Witness ==
    /\ queue # <<>>
    /\ queue[Len(queue)].type = "add"
    /\ Len(Pending) = 2
    /\ Pending[2] = [id |-> now, todo |-> "a", done |-> FALSE]
    /\ Pending[1].done

\* C8: onToggleTodo(id), for an id of the list, flips `done` of the todo with
\* that id and leaves the other todos, the order and the length as they were;
\* toggling the same id again gives the list before the first toggle.
C8_ToggleFlips ==
    [][\A id \in CandidateIds :
          (onToggleTodo(id) /\ \E k \in 1..Len(Pending) : Pending[k].id = id) =>
            /\ Len(Pending') = Len(Pending)
            /\ \A k \in 1..Len(Pending) :
                  Pending'[k] = IF Pending[k].id = id
                                THEN [id |-> Pending[k].id, todo |-> Pending[k].todo,
                                      done |-> ~Pending[k].done]
                                ELSE Pending[k]
            /\ todoReducer(Pending', ToggleAction(id)).items = Pending
            /\ (queue # <<>> /\ queue[Len(queue)] = ToggleAction(id))
                  => Pending' = ReduceQueue(todos, SubSeq(queue, 1, Len(queue) - 1)).items]_vars

\* C8: the same id of the list has been toggled twice before one render.
C8_Witness ==
    /\ Len(queue) = 2
    /\ queue[1].type = "toggle" /\ queue[2] = queue[1]
    /\ \E k \in 1..Len(todos) : todos[k].id = queue[1].payload.num
    /\ Len(todos) = 2
    /\ Pending = todos

\* The list without the todos whose id is id.
RECURSIVE Without(_, _)
Without(list, id) ==
    IF list = <<>> THEN <<>>
    ELSE IF list[1].id = id THEN Without(Tail(list), id)
    ELSE <<list[1]>> \o Without(Tail(list), id)

\* C9: onDeleteTodo(id) gives the list without the todos of that id, the
\* others as they were and in their order; for an id no todo has,
\* onDeleteTodo(id) and onToggleTodo(id) leave the list as it was.
C9_DeleteRemoves ==
    [][\A id \in CandidateIds :
          /\ onDeleteTodo(id) =>
                /\ \A k \in 1..Len(Pending') : Pending'[k].id # id
                /\ Pending' = Without(Pending, id)
          /\ ((onDeleteTodo(id) \/ onToggleTodo(id))
                /\ \A k \in 1..Len(Pending) : Pending[k].id # id)
                => Pending' = Pending]_vars

\* C9: a todo has been deleted from a list of two, the other todo is left.
C9_Witness ==
    /\ queue # <<>>
    /\ queue[Len(queue)].type = "delete"
    /\ LET before == ReduceQueue(todos, SubSeq(queue, 1, Len(queue) - 1)).items
       IN /\ Len(before) = 2
          /\ before[1].id = queue[Len(queue)].payload.num
          /\ before[2].id # before[1].id
          /\ Pending = <<before[2]>>

\* C11: todosCount is the length of the list, pendingTodosCount the number
\* of todos with done = false, completedTodosCount the number with done =
\* true, and the two add up to todosCount.
C11_DerivedCounts ==
    tphase = "mounted" =>
        /\ todosCount(todos) = Cardinality(DOMAIN todos)
        /\ pendingTodosCount(todos) =
               Cardinality({k \in DOMAIN todos : todos[k].done = FALSE})
        /\ completedTodosCount(todos) =
               Cardinality({k \in DOMAIN todos : todos[k].done = TRUE})
        /\ pendingTodosCount(todos) + completedTodosCount(todos) = todosCount(todos)

\* C11: a rendered list of two todos, one of them done.
C11_Witness ==
    /\ tphase = "mounted"
    /\ todosCount(todos) = 2
    /\ pendingTodosCount(todos) = 1
    /\ completedTodosCount(todos) = 1

\* C19: in every state of the todo list no two todos have the same id.
C19_UniqueIds ==
    tphase = "mounted" =>
        \A k, l \in DOMAIN todos : todos[k].id = todos[l].id => k = l

(***************************************************************************)
(* Properties of two components using useTodo                              *)
(***************************************************************************)
\* C20: with two components using useTodo, the list and the queued actions
\* of a component change only in that component's own steps; the item
\* "todos" changes only when the effect of one of them runs and is then the
\* serialization of that component's list, whatever the other one holds or
\* has written: the last write wins.
C20_LastWriteWins ==
    [][/\ \A i \in TodoInstances :
              (uTodos'[i] # uTodos[i] \/ uQueue'[i] # uQueue[i]) => StepOf(i)
       /\ \A i \in TodoInstances :
              RunEffectOf(i) => storage' = Item(JSON_stringify(uTodos[i]))
       /\ storage' # storage => \E i \in TodoInstances : RunEffectOf(i)]_vars

\* A todo was added through component 1 and persisted; component 2 then ran
\* its effect with its empty list: the stored text is that of the empty
\* list, without the todo component 1 still shows.
C20_Witness ==
    /\ \A i \in TodoInstances : uPhase[i] = "mounted" /\ ~uEffect[i] /\ uQueue[i] = <<>>
    /\ Len(uTodos[1]) = 1
    /\ uTodos[2] = <<>>
    /\ storage = Item(JSON_stringify(uTodos[2]))
    /\ storage # Item(JSON_stringify(uTodos[1]))

(***************************************************************************)
(* Properties of useCounter                                                *)
(***************************************************************************)
\* C12: the counter starts at the initial state passed to useCounter, 10 when
\* none is passed; increment(factor) adds factor to the current value and
\* decrement(factor) subtracts it, the factor being 1 when none is passed; the
\* updates are applied to the latest value, so calls made between two renders
\* all count; the counter has no lower or upper limit and a re-render leaves
\* its value to the queued calls alone.
C12_CounterArithmetic ==
    [][/\ \A arg \in InitialArgs : CounterMount(arg) =>
              counter' = (IF arg.given THEN arg.value ELSE 10)
       /\ \A arg \in FactorArgs : increment(arg) =>
              PendingCounter' = PendingCounter + (IF arg.given THEN arg.value ELSE 1)
       /\ \A arg \in FactorArgs : decrement(arg) =>
              PendingCounter' = PendingCounter - (IF arg.given THEN arg.value ELSE 1)
       /\ \A arg \in InitialArgs : CounterRender(arg) =>
              counter' = PendingCounter /\ PendingCounter' = PendingCounter]_vars

\* Two decrements without a factor queued on a counter of 0: the next render
\* shows -2.
C12_Witness ==
    /\ cPhase = "mounted"
    /\ counter = 0
    /\ cQueue = <<DecrementUpdate(1), DecrementUpdate(1)>>
    /\ PendingCounter = 0 - 2

C14_FieldUpdate ==
    [][/\ \A name \in InputNames, value \in FieldValues :
              onInputChange(name, value) =>
                  /\ DOMAIN PendingForm'.fields = DOMAIN PendingForm.fields \cup {name}
                  /\ PendingForm'.fields[name] = value
                  /\ \A k \in DOMAIN PendingForm.fields \ {name} :
                         PendingForm'.fields[k] = PendingForm.fields[k]
       /\ \A obj \in RenderForms : FormRender(obj) =>
              formState' = PendingForm /\ PendingForm' = PendingForm]_vars

\* Two change events of different inputs handled before one re-render: the
\* next render shows both.
C14_Witness ==
    /\ fPhase = "mounted"
    /\ formState.fields = [email |-> "", password |-> ""]
    /\ fQueue = <<MergeUpdate("email", "x"), MergeUpdate("password", "x")>>
    /\ PendingForm.fields = [email |-> "x", password |-> "x"]

C16_DisabledOnEmptyUrl ==
    [][/\ qPhase' = "mounted" => (qOptions'.enabled <=> qConfig'.url # "")
       /\ qCalls' # qCalls => qConfig.url # "" /\ qOptions.enabled
       /\ qCalls'[""] = 0
       /\ ~(qInFlight'.active /\ qInFlight'.url = "")]_vars

\* A component passing the empty url together with a query key, after the
\* query had been run for another url: disabled, and no request for the
\* empty url.
C16_Witness ==
    /\ qPhase = "mounted"
    /\ qConfig.url = ""
    /\ qConfig.queryKey.given
    /\ ~qOptions.enabled
    /\ qCalls["/a"] > 0
    /\ qCalls[""] = 0

(***************************************************************************)
(* Properties of todoReducer                                               *)
(***************************************************************************)
\* C10: for an action whose type is none of "add", "delete", "toggle", the
\* reducer returns the state it was given, the very same array.
C10_DefaultReturnsState ==
    (rDone /\ rAction.type \notin {"add", "delete", "toggle"})
        => (rResult.items = rState /\ rResult.same)

\* C10: the reducer was called with a "reset" action on a list of two.
C10_Witness ==
    /\ rDone
    /\ rAction.type = "reset"
    /\ Len(rState) = 2
    /\ rResult = [items |-> rState, same |-> TRUE]

====
